---------------------------- MODULE Spec2Model ----------------------------
(***************************************************************************)
(* Channel registry and broadcast fan-out of the Channel_manager bot.      *)
(*                                                                         *)
(* Two variants of the program are modelled, selected by `variant`:        *)
(*   "main"  src/main.py  registry = module-level list CHANNELS            *)
(*   "bot"   src/bot.py   registry = content of channels.json, re-read by  *)
(*                        load_channels() in every handler                 *)
(*                                                                         *)
(* Every handler is an asyncio coroutine.  A handler runs atomically from  *)
(* one `await` to the next; each action below is one such stretch of a     *)
(* handler.  Handlers that are suspended at an await interleave.  Awaits   *)
(* of replies to the operator (reply_text / edit_text) are suspension      *)
(* points that return normally; transport calls towards destinations       *)
(* (get_chat, get_chat_member, the send primitives) return or raise        *)
(* nondeterministically.                                                   *)
(*                                                                         *)
(* Which handlers can be suspended at the same time is the dispatcher's    *)
(* doing (`concurrent_updates`).  The Application both programs build      *)
(* processes one update at a time: a handler starts only when the one      *)
(* before it has returned (SpecBuilt).  Spec also covers an Application    *)
(* that processes updates concurrently, the setting in which handlers      *)
(* interleave at their awaits.                                             *)
(*                                                                         *)
(* Besides the operator's handlers the model has: users other than the     *)
(* operator sending commands, payloads and button presses (Stranger), the  *)
(* process being stopped and started again (Restart), and main.py's web    *)
(* thread serving GET /stats while the bot's event loop runs (Http).  Each *)
(* is part of the specifications that name it, next to the definitions.    *)
(* Text is a sequence of one-character strings.                            *)
(***************************************************************************)
EXTENDS Integers, Sequences, FiniteSets, TLC

(***************************************************************************)
(* Bounds of the model.                                                    *)
(***************************************************************************)
\* number of handlers that may be in flight (started, not yet returned) at once
MaxInFlight == 2

\* number of channels a stored channel file may hold when the program starts
MaxStored == 7

(***************************************************************************)
(* Python string and integer conversions used by the handlers.             *)
(***************************************************************************)
Digits == <<"0", "1", "2", "3", "4", "5", "6", "7", "8", "9">>

IsDigit(c) == \E d \in 1..10 : Digits[d] = c

DigitVal(c) == (CHOOSE d \in 1..10 : Digits[d] = c) - 1

RECURSIVE NatStr(_)
NatStr(n) == IF n < 10 THEN <<Digits[n + 1]>>
             ELSE NatStr(n \div 10) \o <<Digits[(n % 10) + 1]>>

\* str(i) for an int
Str(i) == IF i < 0 THEN <<"-">> \o NatStr(0 - i) ELSE NatStr(i)

RECURSIVE DigitsVal(_)
DigitsVal(s) == IF s = <<>> THEN 0
                ELSE 10 * DigitsVal(SubSeq(s, 1, Len(s) - 1)) + DigitVal(s[Len(s)])

AllDigits(s) == s # <<>> /\ \A i \in 1..Len(s) : IsDigit(s[i])

\* int(s): an optional sign followed by decimal digits, else ValueError
PyIntOk(s) == /\ s # <<>>
              /\ IF s[1] \in {"-", "+"} THEN AllDigits(Tail(s)) ELSE AllDigits(s)

PyInt(s) == IF s[1] = "-" THEN 0 - DigitsVal(Tail(s))
            ELSE IF s[1] = "+" THEN DigitsVal(Tail(s))
            ELSE DigitsVal(s)

\* s.startswith(c)
StartsWith(s, c) == s # <<>> /\ s[1] = c

\* s.lstrip(c): every leading c removed
RECURSIVE LStrip(_, _)
LStrip(s, c) == IF s # <<>> /\ s[1] = c THEN LStrip(Tail(s), c) ELSE s

(***************************************************************************)
(* The transport's chats.                                                  *)
(***************************************************************************)
\* chat.username of a chat without public alias
None == <<"None">>

\* the chat ids the operator may name
ChatIds == {0 - 101, 0 - 102, 0 - 103}

\* the chats the transport knows of
KnownChats == {0 - 101, 0 - 102}

\* chat.username: the first chat is @n, the third @w, the others have none
Username(id) == IF id = 0 - 101 THEN <<"n">>
                ELSE IF id = 0 - 103 THEN <<"w">>
                ELSE None

\* chat.title
Title(id) == <<"T">> \o NatStr(0 - id)


\* every chat the bot may be asked about
\* what the operator may type after /addchannel, /add, /removechannel, /remove
Tokens == {Str(id) : id \in ChatIds}
            \cup {<<"@">> \o Username(id) : id \in {c \in ChatIds : Username(c) # None}}
            \cup { <<"n">>, <<"@", "@", "n">>, <<"-", "0", "1", "0", "2">> }

\* member.status values of get_chat_member
Statuses == {"creator", "administrator", "member", "left"}

\* argument of get_chat: a string or an int
StrArg(s) == [int |-> FALSE, s |-> s, n |-> 0]

IntArg(n) == [int |-> TRUE, s |-> <<>>, n |-> n]

NoArg == StrArg(<<>>)

(***************************************************************************)
(* State.                                                                  *)
(***************************************************************************)
VARIABLES
    variant,    \* "main" or "bot": which program runs
    chats,      \* the chats the transport knows of
    concurrent_updates, \* the Application processes updates concurrently
    slots,      \* the broadcast handlers the operator's payloads go to
    kinds,      \* the kinds of payload the operator sends
    bodies,     \* the text bodies (text or caption) the payloads come with
    CHANNELS,   \* the registry: main.py's CHANNELS, bot.py's channels.json
    prompt,     \* the count the confirmation prompt on the operator's
                \* screen states, 0 when there is no such prompt
    add,        \* the running /addchannel (/add) handlers
    ctl,        \* the running remove / clear handler
    bc,         \* the running broadcast handler
    http        \* the GET /stats request the web thread is serving

vars == <<variant, chats, concurrent_updates, slots, kinds, bodies, CHANNELS, prompt, add, ctl, bc, http>>

\* what is fixed when the program starts
env == <<variant, chats, concurrent_updates, slots, kinds, bodies>>

\* chats get_chat may return for an argument: the chat with that numeric id,
\* the chat whose public alias is written @alias, or the chat whose id is
\* written in decimal; every call may also raise instead
GetChat(arg) ==
    IF arg.int THEN {c \in chats : c = arg.n}
    ELSE IF StartsWith(arg.s, "@")
         THEN {c \in chats : Username(c) # None /\ <<"@">> \o Username(c) = arg.s}
         ELSE {c \in chats : Str(c) = arg.s}

AddTasks == {"a1", "a2"}

\* a message without text and caption: "" stands for None and for the empty
\* tuple of spans, which Python's `or` and `if` treat alike
NoFields == [text |-> "", caption |-> "", entities |-> "", caption_entities |-> ""]

\* a report without error lines
NoReport == [lines |-> <<>>, suffix |-> FALSE, more |-> 0]

\* a send method called without text, caption and spans
NoCall == [body |-> "", spans |-> ""]

\* the broadcast handlers that may be running or waiting to be started
BcTasks == {"b1", "b2"}

\* a registry entry (added_by and added_time are never read)
Entry(id) == [id |-> id, username |-> Username(id), title |-> Title(id)]

Ids(chans) == {chans[i].id : i \in 1..Len(chans)}

IdleAdd == [pc |-> "idle", arg |-> NoArg, chat |-> 0, status |-> "", reply |-> ""]

\* removed: id of the entry popped; count: the number the reply states;
\* shown: the rows of a list reply; user: who sent the command or pressed
\* the button, the owner (an admin, bot.py) or somebody else
IdleCtl == [pc |-> "idle", reply |-> "", removed |-> 0, count |-> 0, shown |-> <<>>,
            user |-> "owner"]

\* data: the registry as it was when the handler started (bot.py iterates
\* over it; main.py never copies it, there it is only remembered for the
\* properties); attempted, outcomes: the sends made so far and how each ended;
\* intact: the registry was still as at the start when the loop began;
\* sending: the destinations of the sends awaited at the moment;
\* kind, msg: the payload's kind and the attributes its message carries;
\* primitive: the send method last called; fields: message.text,
\* message.caption, message.entities and message.caption_entities; call: the
\* text or caption and the spans handed to the send method last called;
\* report: the error lines of the final report and its "more" suffix;
\* user: who sent the payload
IdleBc == [pc |-> "idle", user |-> "owner", kind |-> "", msg |-> {}, primitive |-> "",
           fields |-> NoFields, call |-> NoCall, report |-> NoReport,
           data |-> <<>>, idx |-> 0, cur |-> 0, total |-> 0,
           success |-> 0, failed |-> 0, failed_channels |-> <<>>,
           attempted |-> <<>>, outcomes |-> <<>>, intact |-> TRUE,
           sending |-> {}, reply |-> ""]

\* the web thread's request. pc: "idle" (none), "built" (stats() has
\* returned its dict), "sent" (the response is encoded and sent);
\* channels_count: the dict's "channels_count"; channels: the entries of
\* "channels" in the encoded response
IdleHttp == [pc |-> "idle", channels_count |-> 0, channels |-> <<>>]

\* number of handlers that have started and not yet returned
InFlight ==
    Cardinality({t \in AddTasks : add[t].pc # "idle"})
      + (IF ctl.pc # "idle" THEN 1 ELSE 0)
      + Cardinality({b \in BcTasks : bc[b].pc \notin {"idle", "queued"}})

\* an Application built with concurrent_updates(True)
ConcurrentUpdatesOn == TRUE

\* Application.builder().token(TOKEN).build(): concurrent_updates is left at
\* its default, every handler is registered with the default block=True
ConcurrentUpdates == FALSE

\* the dispatcher can start another handler: processing updates one at a
\* time it awaits the running handler first
CanStart == IF concurrent_updates THEN InFlight < MaxInFlight ELSE InFlight = 0

Init ==
    /\ variant \in {"main", "bot"}
    /\ chats = KnownChats
    /\ concurrent_updates \in {ConcurrentUpdates, TRUE}
    /\ slots = {"b1"}
    /\ kinds = {"text"}
    /\ bodies = {"plain"}
    /\ CHANNELS = <<>>
    /\ prompt = 0
    /\ add = [t \in AddTasks |-> IdleAdd]
    /\ ctl = IdleCtl
    /\ bc = [b \in BcTasks |-> IdleBc]
    /\ http = IdleHttp

(***************************************************************************)
(* Add: addchannel_cmd (main.py), add_channel (bot.py).                    *)
(***************************************************************************)
\* a check that lets every present member pass
IsAdminStatusOrMember(st) == st \in {"administrator", "creator", "member"}

\* member.status not in ['administrator', 'creator']
IsAdminStatus(st) == st \in {"administrator", "creator"}

\* a scan that looks at the first entry only
AlreadyRegisteredFirstOnly(chans, id) == chans # <<>> /\ chans[1].id = id

\* a scan that looks at the last entry only
AlreadyRegisteredLastOnly(chans, id) == chans # <<>> /\ chans[Len(chans)].id = id

\* the linear scan for an entry with this id
AlreadyRegistered(chans, id) == \E i \in 1..Len(chans) : chans[i].id = id

\* an insertion at the head of the list
InsertFirst(chans, channel) == <<channel>> \o chans

\* CHANNELS.append(...) (main.py), data["channels"].append(channel_info)
\* followed by save_channels(data) (bot.py)
AppendChannel(chans, channel) == Append(chans, channel)

AddReply(t, kind) == add' = [add EXCEPT ![t] = [IdleAdd EXCEPT !.pc = "reply", !.reply = kind]]

AddReplyStatus(t, kind, st) ==
    add' = [add EXCEPT ![t] = [IdleAdd EXCEPT !.pc = "reply", !.reply = kind, !.status = st]]

\* a handler without an except clause
AddCaughtNothing(exc) == FALSE

\* the except clause around the body: `except Exception` (main.py),
\* `except TelegramError` (bot.py)
AddCaught(exc) ==
    IF variant = "main" THEN exc \in {"telegram_error", "value_error"}
    ELSE exc = "telegram_error"

\* an exception is raised in the body: the except clause replies with the
\* error (the argument is in the error's text), any other leaves the handler
AddRaise(t, exc, arg) ==
    IF AddCaught(exc)
    THEN add' = [add EXCEPT ![t] = [IdleAdd EXCEPT !.pc = "reply", !.reply = "error",
                                                   !.arg = arg]]
    ELSE add' = [add EXCEPT ![t] = [IdleAdd EXCEPT !.pc = "crashed"]]

\* the handler starts and runs to its first await: get_chat, or, when int()
\* raises ValueError in main.py, the error reply of `except Exception`
AddStart(t, tok) ==
    /\ add[t].pc = "idle"
    /\ CanStart
    /\ IF variant = "main" /\ ~StartsWith(tok, "@")
       THEN IF PyIntOk(tok)
            THEN add' = [add EXCEPT ![t].pc = "get_chat", ![t].arg = IntArg(PyInt(tok))]
            ELSE AddRaise(t, "value_error", StrArg(tok))
       ELSE add' = [add EXCEPT ![t].pc = "get_chat", ![t].arg = StrArg(tok)]
    /\ UNCHANGED <<env, http, prompt, CHANNELS, ctl, bc>>

\* the command came without an argument: the handler replies its usage
AddUsage(t) ==
    /\ add[t].pc = "idle"
    /\ CanStart
    /\ AddReply(t, "usage")
    /\ UNCHANGED <<env, http, prompt, CHANNELS, ctl, bc>>

\* get_chat raises the transport's error
AddGetChatRaises(t) ==
    /\ add[t].pc = "get_chat"
    /\ AddRaise(t, "telegram_error", add[t].arg)
    /\ UNCHANGED <<env, http, prompt, CHANNELS, ctl, bc>>

\* get_chat returns a chat: the handler awaits get_chat_member
AddGetChatReturns(t) ==
    /\ add[t].pc = "get_chat"
    /\ \E c \in GetChat(add[t].arg) :
          add' = [add EXCEPT ![t] = [IdleAdd EXCEPT !.pc = "get_chat_member", !.chat = c]]
    /\ UNCHANGED <<env, http, prompt, CHANNELS, ctl, bc>>

\* get_chat_member raises the transport's error
AddGetMemberRaises(t) ==
    /\ add[t].pc = "get_chat_member"
    /\ AddRaise(t, "telegram_error", NoArg)
    /\ UNCHANGED <<env, http, prompt, CHANNELS, ctl, bc>>

\* get_chat_member returns: admin check, duplicate check and append run
\* without an await in between, then the handler awaits its reply
AddGetMemberReturns(t) ==
    /\ add[t].pc = "get_chat_member"
    /\ \E st \in Statuses :
          IF ~IsAdminStatus(st)
          THEN /\ AddReplyStatus(t, "not_admin", st)
               /\ UNCHANGED CHANNELS
          ELSE IF AlreadyRegistered(CHANNELS, add[t].chat)
          THEN /\ AddReplyStatus(t, "already", st)
               /\ UNCHANGED CHANNELS
          ELSE /\ AddReplyStatus(t, "added", st)
               /\ CHANNELS' = AppendChannel(CHANNELS, Entry(add[t].chat))
    /\ UNCHANGED <<env, http, prompt, ctl, bc>>

\* the handler returns: after its reply, or by the exception that escaped it
AddDone(t) ==
    /\ add[t].pc \in {"reply", "crashed"}
    /\ add' = [add EXCEPT ![t] = IdleAdd]
    /\ UNCHANGED <<env, http, prompt, CHANNELS, ctl, bc>>

Add == \E t \in AddTasks :
          \/ \E tok \in Tokens : AddStart(t, tok)
          \/ AddUsage(t)
          \/ AddGetChatRaises(t)
          \/ AddGetChatReturns(t)
          \/ AddGetMemberRaises(t)
          \/ AddGetMemberReturns(t)
          \/ AddDone(t)

(***************************************************************************)
(* Remove and Clear: removechannel_cmd, clearchannels_cmd, button_handler  *)
(* (main.py), remove_channel (bot.py).  Each runs without an await up to   *)
(* its reply.                                                              *)
(***************************************************************************)
\* a removal that moves the last entry into the gap
RemoveAtSwap(chans, i) ==
    IF i = Len(chans) THEN SubSeq(chans, 1, Len(chans) - 1)
    ELSE [SubSeq(chans, 1, Len(chans) - 1) EXCEPT ![i] = chans[Len(chans)]]

\* list.pop(i), i counted from 1
RemoveAt(chans, i) == SubSeq(chans, 1, i - 1) \o SubSeq(chans, i + 1, Len(chans))

\* main.py: channel['id'] == channel_id
MatchesId(channel, id) == channel.id = id

\* a test that compares the handle only
MatchesTokenHandleOnly(channel, tok) == channel.username = LStrip(tok, "@")

\* bot.py: str(channel["id"]) == channel_input
\*         or channel.get("username") == channel_input.lstrip("@")
MatchesToken(channel, tok) ==
    \/ Str(channel.id) = tok
    \/ channel.username = LStrip(tok, "@")

\* index of the first entry with this id, 0 when there is none
FirstById(chans, id) ==
    IF \E i \in 1..Len(chans) : MatchesId(chans[i], id)
    THEN CHOOSE i \in 1..Len(chans) :
            /\ MatchesId(chans[i], id)
            /\ \A j \in 1..(i - 1) : ~MatchesId(chans[j], id)
    ELSE 0

\* index of the first entry the token matches, 0 when there is none
FirstByToken(chans, tok) ==
    IF \E i \in 1..Len(chans) : MatchesToken(chans[i], tok)
    THEN CHOOSE i \in 1..Len(chans) :
            /\ MatchesToken(chans[i], tok)
            /\ \A j \in 1..(i - 1) : ~MatchesToken(chans[j], tok)
    ELSE 0

CtlReply(kind) == ctl' = [IdleCtl EXCEPT !.pc = "reply", !.reply = kind]

\* pop entry i and reply, or reply not-found when i = 0
RemoveIndex(i) ==
    IF i = 0
    THEN /\ CtlReply("not_found")
         /\ UNCHANGED CHANNELS
    ELSE /\ ctl' = [IdleCtl EXCEPT !.pc = "reply", !.reply = "removed",
                                   !.removed = CHANNELS[i].id,
                                   !.count = Len(CHANNELS) - 1]
         /\ CHANNELS' = RemoveAt(CHANNELS, i)

\* /removechannel <tok> (main.py), /remove <tok> (bot.py)
RemoveCmd(tok) ==
    /\ ctl.pc = "idle"
    /\ CanStart
    /\ IF variant = "main"
       THEN IF CHANNELS = <<>>
            THEN CtlReply("no_channels") /\ UNCHANGED CHANNELS
            ELSE IF ~PyIntOk(tok)
            THEN CtlReply("invalid") /\ UNCHANGED CHANNELS
            ELSE RemoveIndex(FirstById(CHANNELS, PyInt(tok)))
       ELSE RemoveIndex(FirstByToken(CHANNELS, tok))
    /\ UNCHANGED <<env, http, prompt, add, bc>>

\* /remove without argument: the handler replies its usage (bot.py)
RemoveUsage ==
    /\ ctl.pc = "idle"
    /\ CanStart
    /\ variant = "bot"
    /\ CtlReply("usage")
    /\ UNCHANGED <<env, http, prompt, CHANNELS, add, bc>>

\* /removechannel without argument, or the "remove_channel" button: a
\* keyboard with one remove button per registered channel (main.py)
RemoveKeyboard ==
    /\ ctl.pc = "idle"
    /\ CanStart
    /\ variant = "main"
    /\ IF CHANNELS = <<>> THEN CtlReply("no_channels") ELSE CtlReply("keyboard")
    /\ UNCHANGED <<env, http, prompt, CHANNELS, add, bc>>

\* a "remove_<id>" button of a keyboard shown earlier is pressed (main.py);
\* the button of a channel that is not registered any more gives not-found,
\* as does the id of a channel that never was
RemoveButton(id) ==
    /\ ctl.pc = "idle"
    /\ CanStart
    /\ variant = "main"
    /\ RemoveIndex(FirstById(CHANNELS, id))
    /\ UNCHANGED <<env, http, prompt, add, bc>>

\* the rows of a list reply: enumerate(CHANNELS, 1) with each entry's id
ListRows(chans) == [i \in 1..Len(chans) |-> <<i, chans[i].id>>]

\* /listchannels or the "list_channels" button (main.py), /list (bot.py)
ListCmd ==
    /\ ctl.pc = "idle"
    /\ CanStart
    /\ IF CHANNELS = <<>>
       THEN CtlReply("list_empty")
       ELSE ctl' = [IdleCtl EXCEPT !.pc = "reply", !.reply = "list",
                                   !.count = Len(CHANNELS),
                                   !.shown = ListRows(CHANNELS)]
    /\ UNCHANGED <<env, http, prompt, CHANNELS, add, bc>>

\* a command that clears at once
ClearPromptClears ==
    /\ ctl.pc = "idle"
    /\ CanStart
    /\ variant = "main"
    /\ IF CHANNELS = <<>>
       THEN CtlReply("no_channels")
       ELSE ctl' = [IdleCtl EXCEPT !.pc = "reply", !.reply = "cleared",
                                   !.count = Len(CHANNELS)]
    /\ CHANNELS' = <<>>
    /\ UNCHANGED <<env, http, prompt, add, bc>>

\* /clearchannels or the "clear_all" button: the confirmation prompt (main.py)
ClearPrompt ==
    /\ ctl.pc = "idle"
    /\ CanStart
    /\ variant = "main"
    /\ IF CHANNELS = <<>>
       THEN CtlReply("no_channels")
       ELSE ctl' = [IdleCtl EXCEPT !.pc = "reply", !.reply = "confirm",
                                   !.count = Len(CHANNELS)]
    /\ UNCHANGED <<env, http, prompt, CHANNELS, add, bc>>

\* a handler that counts the channels after clearing them
ClearYesCountsAfter ==
    /\ ctl.pc = "idle"
    /\ CanStart
    /\ variant = "main"
    /\ prompt > 0
    /\ ctl' = [IdleCtl EXCEPT !.pc = "reply", !.reply = "cleared", !.count = 0]
    /\ CHANNELS' = <<>>
    /\ prompt' = 0
    /\ UNCHANGED <<env, http, add, bc>>

\* the "clear_yes" button of the prompt is pressed (main.py); the handler's
\* reply replaces the prompt and its buttons
ClearYes ==
    /\ ctl.pc = "idle"
    /\ CanStart
    /\ variant = "main"
    /\ prompt > 0
    /\ ctl' = [IdleCtl EXCEPT !.pc = "reply", !.reply = "cleared",
                              !.count = Len(CHANNELS)]
    /\ CHANNELS' = <<>>
    /\ prompt' = 0
    /\ UNCHANGED <<env, http, add, bc>>

\* the "clear_no" button of the prompt is pressed (main.py)
ClearNo ==
    /\ ctl.pc = "idle"
    /\ CanStart
    /\ variant = "main"
    /\ prompt > 0
    /\ ctl' = [IdleCtl EXCEPT !.pc = "reply", !.reply = "cancelled",
                              !.count = Len(CHANNELS)]
    /\ prompt' = 0
    /\ UNCHANGED <<env, http, CHANNELS, add, bc>>

\* the reply to the operator returns and the handler ends; a confirmation
\* prompt is on the operator's screen from now on
CtlDone ==
    /\ ctl.pc = "reply"
    /\ ctl' = IdleCtl
    /\ prompt' = IF ctl.reply = "confirm" THEN ctl.count ELSE prompt
    /\ UNCHANGED <<env, http, CHANNELS, add, bc>>

\* /stats or the "stats_cmd" button: the statistics with the number of
\* channels (main.py)
StatsCmd ==
    /\ ctl.pc = "idle"
    /\ CanStart
    /\ variant = "main"
    /\ ctl' = [IdleCtl EXCEPT !.pc = "reply", !.reply = "stats",
                              !.count = Len(CHANNELS)]
    /\ UNCHANGED <<env, http, prompt, CHANNELS, add, bc>>

List == ListCmd

Stats == StatsCmd

Remove ==
    \/ \E tok \in Tokens : RemoveCmd(tok)
    \/ RemoveUsage
    \/ RemoveKeyboard
    \/ \E id \in ChatIds : RemoveButton(id)
    \/ CtlDone

Clear ==
    \/ ClearPrompt
    \/ ClearYes
    \/ ClearNo

(***************************************************************************)
(* Broadcast: forward_to_channels (main.py), broadcast_media (bot.py).     *)
(***************************************************************************)
\* how a send primitive ends: it returns, raises a TelegramError, or raises
\* another exception
SendOutcomes == {"ok", "telegram_error", "other_error"}

\* a handler without the emptiness test
NoChannelsNever(chans) == FALSE

\* `if not CHANNELS:` / `if not data["channels"]:`
NoChannels(chans) == chans = <<>>

\* the list the for loop iterates over: main.py the live CHANNELS,
\* bot.py the list load_channels() returned to this handler
IterSource(b) == IF variant = "main" THEN CHANNELS ELSE b.data

\* the except clause of the loop body: `except Exception` (main.py),
\* `except TelegramError` (bot.py)
Caught(outcome) ==
    IF variant = "main" THEN outcome \in {"telegram_error", "other_error"}
    ELSE outcome = "telegram_error"

\* the payload kinds the operator may send
PayloadKinds == {"text", "photo", "video", "document", "audio", "voice",
                 "video_note", "sticker", "animation"}

\* the attributes set on the message of a payload of the kind: the one of
\* the kind, and on an animation possibly `document` as well (the Bot API
\* sets both; both messages are inputs)
Messages(kind) ==
    IF kind = "animation" THEN {{"animation"}, {"animation", "document"}}
    ELSE {{kind}}

\* a kind of payload the transport has no typed send method for
OtherKinds == {"location"}

\* the kinds that may carry a caption
Captioned == {"photo", "video", "document", "audio", "voice", "animation"}

\* the bodies a payload of the kind may come with: a text is never empty,
\* a caption may be absent, plain or formatted, other kinds have neither
Bodies(kind) ==
    IF kind = "text" THEN bodies \ {"none"}
    ELSE IF kind \in Captioned THEN bodies
    ELSE {"none"}

\* the text, caption and span attributes of the message of such a payload
Fields(kind, body) ==
    [text |-> IF kind = "text" THEN "T" ELSE "",
     entities |-> IF kind = "text" /\ body = "spans" THEN "E" ELSE "",
     caption |-> IF kind \in Captioned /\ body # "none" THEN "C" ELSE "",
     caption_entities |-> IF kind \in Captioned /\ body = "spans" THEN "CE" ELSE ""]

\* the filter of the MessageHandler: filters.ALL & ~filters.COMMAND
\* (main.py), the nine kinds (bot.py)
Handled(msg) == variant = "main" \/ msg \cap PayloadKinds # {}

\* Python's `a or b` on values that are None or not empty
Or(a, b) == IF a # "" THEN a ELSE b

\* the literal text of main.py's else branch (a loudspeaker sign precedes it)
Placeholder == "Broadcast"

\* the if/elif chain of the loop body: the send method called for a message
Primitive(msg) ==
    IF "photo" \in msg THEN "send_photo"
    ELSE IF "video" \in msg THEN "send_video"
    ELSE IF "document" \in msg THEN "send_document"
    ELSE IF "audio" \in msg THEN "send_audio"
    ELSE IF "voice" \in msg THEN "send_voice"
    ELSE IF variant = "bot" /\ "video_note" \in msg THEN "send_video_note"
    ELSE IF "sticker" \in msg THEN "send_sticker"
    ELSE IF "animation" \in msg THEN "send_animation"
    ELSE IF variant = "main" \/ "text" \in msg THEN "send_message"
    ELSE "forward"

\* the text or caption and the spans the branch hands to its send method
Call(b) ==
    IF Primitive(b.msg) \in {"send_photo", "send_video", "send_document",
                             "send_audio", "send_animation"}
    THEN [body |-> b.fields.caption, spans |-> b.fields.caption_entities]
    ELSE IF Primitive(b.msg) = "send_voice"
    THEN [body |-> b.fields.caption,
          spans |-> IF variant = "main" THEN b.fields.caption_entities ELSE ""]
    ELSE IF Primitive(b.msg) = "send_message"
    THEN IF variant = "main"
         THEN [body |-> Or(Or(b.fields.text, b.fields.caption), Placeholder),
               spans |-> Or(b.fields.entities, b.fields.caption_entities)]
         ELSE [body |-> b.fields.text, spans |-> b.fields.entities]
    ELSE NoCall

\* the number of error lines the report shows at most
ReportCap == 5

\* a report that shows every error line
ReportLinesUncapped(failed_channels) == failed_channels

\* failed_channels[:5]
ReportLines(failed_channels) ==
    SubSeq(failed_channels, 1,
           IF Len(failed_channels) < ReportCap THEN Len(failed_channels) ELSE ReportCap)

\* the error lines of the final report, and "...and N more" when there
\* are more than five (bot.py; main.py's report has counts only)
Render(b) ==
    IF variant = "bot" /\ b.failed > 0
    THEN [lines |-> ReportLines(b.failed_channels),
          suffix |-> Len(b.failed_channels) > ReportCap,
          more |-> IF Len(b.failed_channels) > ReportCap
                   THEN Len(b.failed_channels) - ReportCap ELSE 0]
    ELSE NoReport

\* a loop that starts the sends to all remaining channels together
BcNextAll(b) ==
    IF b.idx < Len(IterSource(b))
    THEN [b EXCEPT !.pc = "send", !.idx = Len(IterSource(b)),
                   !.cur = IterSource(b)[b.idx + 1].id,
                   !.primitive = Primitive(b.msg),
                   !.call = Call(b),
                   !.sending = {IterSource(b)[i].id :
                                   i \in (b.idx + 1)..Len(IterSource(b))},
                   !.attempted = b.attempted \o
                       [i \in 1..(Len(IterSource(b)) - b.idx) |->
                           IterSource(b)[b.idx + i].id]]
    ELSE [b EXCEPT !.pc = "reply", !.reply = "report", !.cur = 0,
                   !.report = Render(b)]

\* the list iterator's next step: the item at the iterator's index in the
\* list as it is now, whose send is awaited, or the end of the loop and the
\* final report
BcNext(b) ==
    IF b.idx < Len(IterSource(b))
    THEN [b EXCEPT !.pc = "send", !.idx = b.idx + 1,
                   !.cur = IterSource(b)[b.idx + 1].id,
                   !.primitive = Primitive(b.msg),
                   !.call = Call(b),
                   !.sending = {IterSource(b)[b.idx + 1].id},
                   !.attempted = Append(b.attempted, IterSource(b)[b.idx + 1].id)]
    ELSE [b EXCEPT !.pc = "reply", !.reply = "report", !.cur = 0,
                   !.report = Render(b)]

\* the operator sends a payload message: the update waits in the
\* Application's update queue until the dispatcher starts its handler (the
\* second handler is only used while the first is)
Queue(b, user) ==
    \E kind \in kinds : \E msg \in Messages(kind) : \E body \in Bodies(kind) :
        bc' = [bc EXCEPT ![b] = [IdleBc EXCEPT !.pc = "queued", !.user = user,
                                               !.kind = kind, !.msg = msg,
                                               !.fields = Fields(kind, body)]]

BcSubmit(b) ==
    /\ b \in slots
    /\ bc[b].pc = "idle"
    /\ b = "b2" => bc["b1"].pc # "idle"
    /\ Queue(b, "owner")
    /\ UNCHANGED <<env, http, prompt, CHANNELS, add, ctl>>

\* `user.id != OWNER_ID` (main.py), `is_admin(user.id)` (bot.py)
IsOwner(user) == user = "owner"

\* the dispatcher takes the update: a message no handler's filter lets
\* pass is dropped; else the handler starts: with no channel it replies a
\* notice (main.py only outside a private chat) and returns, else it sends
\* the status message
BcStart(b, private) ==
    /\ bc[b].pc = "queued"
    /\ CanStart
    /\ IF ~Handled(bc[b].msg)
       THEN bc' = [bc EXCEPT ![b] = IdleBc]
       ELSE IF ~IsOwner(bc[b].user)
       THEN bc' = [bc EXCEPT ![b] = [bc[b] EXCEPT !.pc = "reply",
                                                  !.reply = "unauthorized"]]
       ELSE IF NoChannels(CHANNELS)
       THEN IF variant = "main" /\ private
            THEN bc' = [bc EXCEPT ![b] = [bc[b] EXCEPT !.pc = "ended"]]
            ELSE bc' = [bc EXCEPT ![b] = [bc[b] EXCEPT !.pc = "reply",
                                                       !.reply = "no_channels"]]
       ELSE bc' = [bc EXCEPT ![b] = [bc[b] EXCEPT !.pc = "status",
                                                   !.data = CHANNELS,
                                                   !.total = Len(CHANNELS)]]
    /\ UNCHANGED <<env, http, prompt, CHANNELS, add, ctl>>

\* the status message is sent: the loop starts
BcStatusReturns(b) ==
    /\ bc[b].pc = "status"
    /\ bc' = [bc EXCEPT ![b] = BcNext([bc[b] EXCEPT !.intact = (CHANNELS = bc[b].data)])]
    /\ UNCHANGED <<env, http, prompt, CHANNELS, add, ctl>>

\* the send returns: count it and go on with the next channel
BcSendOk(b) ==
    /\ bc[b].pc = "send"
    /\ bc' = [bc EXCEPT ![b] = BcNext([bc[b] EXCEPT
                                  !.success = bc[b].success + 1,
                                  !.sending = {},
                                  !.outcomes = Append(bc[b].outcomes, "ok")])]
    /\ UNCHANGED <<env, http, prompt, CHANNELS, add, ctl>>

\* an except clause that takes the channel whose send failed off the list
DropFailed(chans, id) == SelectSeq(chans, LAMBDA channel : channel.id # id)

\* the registry after a send has raised: the except clause counts and logs,
\* the list stays as it is
AfterFailure(chans, id) == chans

\* the send raises: an exception the except clause catches is counted (and
\* listed, bot.py) and the loop goes on; any other leaves the handler
BcSendRaises(b, outcome) ==
    /\ bc[b].pc = "send"
    /\ outcome # "ok"
    /\ IF Caught(outcome)
       THEN bc' = [bc EXCEPT ![b] = BcNext([bc[b] EXCEPT
                    !.failed = bc[b].failed + 1,
                    !.failed_channels =
                        IF variant = "bot"
                        THEN Append(bc[b].failed_channels, Title(bc[b].cur))
                        ELSE bc[b].failed_channels,
                    !.sending = {},
                    !.outcomes = Append(bc[b].outcomes, outcome)])]
       ELSE bc' = [bc EXCEPT ![b] = [bc[b] EXCEPT
                    !.pc = "crashed",
                    !.sending = {},
                    !.outcomes = Append(bc[b].outcomes, outcome)]]
    /\ CHANNELS' = AfterFailure(CHANNELS, bc[b].cur)
    /\ UNCHANGED <<env, http, prompt, add, ctl>>

\* the handler returns: after its last reply, without one, or by the
\* exception that escaped it
BcDone(b) ==
    /\ bc[b].pc \in {"reply", "ended", "crashed"}
    /\ bc' = [bc EXCEPT ![b] = IdleBc]
    /\ UNCHANGED <<env, http, prompt, CHANNELS, add, ctl>>

Broadcast == \E b \in BcTasks :
    \/ BcSubmit(b)
    \/ \E private \in BOOLEAN : BcStart(b, private)
    \/ BcStatusReturns(b)
    \/ BcSendOk(b)
    \/ \E outcome \in SendOutcomes : BcSendRaises(b, outcome)
    \/ BcDone(b)

(***************************************************************************)
(* Events from users other than the owner (main.py) or the admins (bot.py). *)
(***************************************************************************)
\* a command of such a user: every command handler replies "Unauthorized"
\* and returns
StrangerAdd(t) ==
    /\ add[t].pc = "idle"
    /\ CanStart
    /\ AddReply(t, "unauthorized")
    /\ UNCHANGED <<env, http, prompt, CHANNELS, ctl, bc>>

StrangerCmd ==
    /\ ctl.pc = "idle"
    /\ CanStart
    /\ ctl' = [IdleCtl EXCEPT !.pc = "reply", !.reply = "unauthorized", !.user = "other"]
    /\ UNCHANGED <<env, http, prompt, CHANNELS, add, bc>>

\* a payload message of such a user
StrangerPayload(b) ==
    /\ b \in slots
    /\ bc[b].pc = "idle"
    /\ b = "b2" => bc["b1"].pc # "idle"
    /\ Queue(b, "other")
    /\ UNCHANGED <<env, http, prompt, CHANNELS, add, ctl>>

\* such a user presses "clear_yes" or "clear_no" of a confirmation prompt
\* the bot has posted where the user sees it, a group chat the owner gave
\* the command in: button_handler does not look at who pressed (main.py);
\* the "remove_<id>" buttons of a keyboard posted there are open alike
StrangerClearYes ==
    /\ ctl.pc = "idle"
    /\ CanStart
    /\ variant = "main"
    /\ prompt > 0
    /\ ctl' = [IdleCtl EXCEPT !.pc = "reply", !.reply = "cleared",
                              !.count = Len(CHANNELS), !.user = "other"]
    /\ CHANNELS' = <<>>
    /\ prompt' = 0
    /\ UNCHANGED <<env, http, add, bc>>

StrangerClearNo ==
    /\ ctl.pc = "idle"
    /\ CanStart
    /\ variant = "main"
    /\ prompt > 0
    /\ ctl' = [IdleCtl EXCEPT !.pc = "reply", !.reply = "cancelled",
                              !.count = Len(CHANNELS), !.user = "other"]
    /\ prompt' = 0
    /\ UNCHANGED <<env, http, CHANNELS, add, bc>>

Stranger ==
    \/ \E t \in AddTasks : StrangerAdd(t)
    \/ StrangerCmd
    \/ \E b \in BcTasks : StrangerPayload(b)
    \/ StrangerClearYes
    \/ StrangerClearNo

(***************************************************************************)
(* The process ends and is started again.                                  *)
(***************************************************************************)
\* a program that starts with an empty registry
AtStartEmpty(chans) == <<>>

\* the registry a new run finds: what load_channels() reads from the file
\* the run before wrote (bot.py), `CHANNELS = []` (main.py)
AtStart(chans) == IF variant = "bot" THEN chans ELSE <<>>

\* the process is stopped, its handlers with it, and started again
Restart ==
    /\ CHANNELS' = AtStart(CHANNELS)
    /\ prompt' = 0
    /\ add' = [t \in AddTasks |-> IdleAdd]
    /\ ctl' = IdleCtl
    /\ bc' = [b \in BcTasks |-> IdleBc]
    /\ http' = IdleHttp
    /\ UNCHANGED env

(***************************************************************************)
(* The web thread: stats() behind GET /stats (main.py), served by uvicorn   *)
(* in a thread of its own while the bot's event loop runs the handlers.     *)
(***************************************************************************)

\* a request arrives, the one before answered: stats() builds the dict it
\* returns, len(CHANNELS) is evaluated for "channels_count", "channels"
\* refers to the list itself
HttpStats ==
    /\ variant = "main"
    /\ http.pc \in {"idle", "sent"}
    /\ http' = [pc |-> "built", channels_count |-> Len(CHANNELS),
                channels |-> <<>>]
    /\ UNCHANGED <<env, CHANNELS, prompt, add, ctl, bc>>

\* the dict stats() returned is encoded to JSON: the entries the list holds
\* by then
HttpEncode ==
    /\ http.pc = "built"
    /\ http' = [http EXCEPT !.pc = "sent", !.channels = CHANNELS]
    /\ UNCHANGED <<env, CHANNELS, prompt, add, ctl, bc>>

Http == HttpStats \/ HttpEncode

Next == Add \/ List \/ Remove \/ Clear \/ Broadcast

\* the handlers under either way of dispatching, the operator sending a
\* payload only when the broadcast before it has ended
Spec == Init /\ [][Next]_vars

\* the program as main() builds it; the operator may send a payload while
\* the broadcast of the one before is still running
InitBuilt ==
    /\ variant \in {"main", "bot"}
    /\ chats \in {KnownChats, ChatIds}
    /\ concurrent_updates = ConcurrentUpdates
    /\ slots = BcTasks
    /\ kinds = {"text"}
    /\ bodies = {"plain"}
    /\ CHANNELS = <<>>
    /\ prompt = 0
    /\ add = [t \in AddTasks |-> IdleAdd]
    /\ ctl = IdleCtl
    /\ bc = [b \in BcTasks |-> IdleBc]
    /\ http = IdleHttp

SpecBuilt == InitBuilt /\ [][Next]_vars

\* the registry's handlers alone, no payload being sent: a broadcast writes
\* nothing that Add, List, Remove and Clear read
NextRegistry == Add \/ List \/ Remove \/ Clear

SpecRegistry == Init /\ [][NextRegistry]_vars

\* Add and Broadcast alone, without the operator's other commands
NextFanout == Add \/ Broadcast

SpecFanout == Init /\ [][NextFanout]_vars

\* payloads of every kind, one at a time, to the channels added
InitPayload ==
    /\ variant \in {"main", "bot"}
    /\ chats = KnownChats
    /\ concurrent_updates = ConcurrentUpdates
    /\ slots = {"b1"}
    /\ kinds = PayloadKinds \cup OtherKinds
    /\ bodies = {"none", "plain", "spans"}
    /\ CHANNELS = <<>>
    /\ prompt = 0
    /\ add = [t \in AddTasks |-> IdleAdd]
    /\ ctl = IdleCtl
    /\ bc = [b \in BcTasks |-> IdleBc]
    /\ http = IdleHttp

SpecPayload == InitPayload /\ [][NextFanout]_vars

\* the channel file bot.py finds at its start: up to MaxStored channels
\* registered in earlier runs
Stored(n) == [i \in 1..n |-> Entry(0 - 100 - i)]

\* bot.py started on a stored channel file, payloads being broadcast to
\* the channels it holds
InitReport ==
    /\ variant = "bot"
    /\ chats = {0 - 100 - i : i \in 1..MaxStored}
    /\ concurrent_updates = ConcurrentUpdates
    /\ slots = {"b1"}
    /\ kinds = {"text"}
    /\ bodies = {"plain"}
    /\ CHANNELS \in {Stored(n) : n \in 0..MaxStored}
    /\ prompt = 0
    /\ add = [t \in AddTasks |-> IdleAdd]
    /\ ctl = IdleCtl
    /\ bc = [b \in BcTasks |-> IdleBc]
    /\ http = IdleHttp

NextReport == Broadcast

\* the registry's handlers, the process being restarted at any time
NextStored == NextRegistry \/ Restart

SpecStored == Init /\ [][NextStored]_vars

\* the program as built, with its statistics view
NextViews == Next \/ Stats

SpecViews == InitBuilt /\ [][NextViews]_vars

\* the program as built, other users sending commands and payloads and
\* pressing buttons as well
InitAccess ==
    /\ variant \in {"main", "bot"}
    /\ chats = KnownChats
    /\ concurrent_updates = ConcurrentUpdates
    /\ slots = {"b1"}
    /\ kinds = {"text"}
    /\ bodies = {"plain"}
    /\ CHANNELS = <<>>
    /\ prompt = 0
    /\ add = [t \in AddTasks |-> IdleAdd]
    /\ ctl = IdleCtl
    /\ bc = [b \in BcTasks |-> IdleBc]
    /\ http = IdleHttp

NextAccess == Next \/ Stranger

SpecAccess == InitAccess /\ [][NextAccess]_vars

SpecReport == InitReport /\ [][NextReport]_vars

\* the program as built, GET /stats being requested of main.py while the
\* operator adds, removes and clears channels
InitHttp ==
    /\ variant \in {"main", "bot"}
    /\ chats = KnownChats
    /\ concurrent_updates = ConcurrentUpdates
    /\ slots = {"b1"}
    /\ kinds = {"text"}
    /\ bodies = {"plain"}
    /\ CHANNELS = <<>>
    /\ prompt = 0
    /\ add = [t \in AddTasks |-> IdleAdd]
    /\ ctl = IdleCtl
    /\ bc = [b \in BcTasks |-> IdleBc]
    /\ http = IdleHttp

NextHttp == Add \/ Remove \/ Clear \/ Http

SpecHttp == InitHttp /\ [][NextHttp]_vars


(***************************************************************************)
(* Properties.                                                             *)
(***************************************************************************)
AdminStatuses == {"administrator", "creator"}

\* the ids of a list of entries, in order
IdSeq(chans) == [i \in 1..Len(chans) |-> chans[i].id]

\* how often id occurs in a sequence of ids
Count(ids, id) == Cardinality({i \in 1..Len(ids) : ids[i] = id})

\* the broadcast has rendered its final report
Reported(b) == bc[b].pc = "reply" /\ bc[b].reply = "report"

\* C1: after any sequence of Add, Remove and Clear, Add handlers interleaving
\* at their awaits included, no two entries of the registry have the same id
C1_UniqueIds ==
    \A i, j \in 1..Len(CHANNELS) : CHANNELS[i].id = CHANNELS[j].id => i = j

\* an Add is suspended in get_chat_member for a chat that another Add, itself
\* still awaiting its reply, has registered in the meantime
C1_Witness ==
    /\ add["a1"].pc = "reply" /\ add["a1"].reply = "added"
    /\ add["a2"].pc = "get_chat_member"
    /\ add["a2"].chat \in Ids(CHANNELS)
    /\ Len(CHANNELS) = 1

\* C2: a send that fails never keeps the loop from going on to the next
\* destination and never makes the broadcast handler itself fail
C2_FailureContained ==
    [][\A b \in BcTasks :
          (bc[b].pc = "send" /\ bc'[b] # bc[b])
             => /\ bc'[b].pc # "crashed"
                /\ bc[b].idx < Len(IterSource(bc[b])) => bc'[b].pc = "send"]_vars

C5_OnlyAdminAdded ==
    [][/\ \A t \in AddTasks :
             (/\ add[t].pc = "get_chat_member"
              /\ add'[t].pc = "reply"
              /\ add'[t].status \in Statuses \ AdminStatuses)
                => /\ CHANNELS' = CHANNELS
                   /\ add'[t].reply = "not_admin"
       /\ Len(CHANNELS') > Len(CHANNELS)
             => \E t \in AddTasks :
                   /\ add[t].pc = "get_chat_member"
                   /\ add'[t].status \in AdminStatuses
                   /\ add'[t].reply = "added"
                   /\ CHANNELS' = Append(CHANNELS, Entry(add[t].chat))]_vars

\* an Add was refused for a non-admin status while a channel is registered
C5_Witness ==
    /\ CHANNELS # <<>>
    /\ \E t \in AddTasks : add[t].pc = "reply" /\ add[t].reply = "not_admin"
                           /\ add[t].status = "member"

\* C6: an Add that reaches the duplicate check for a chat whose id is in
\* the registry is rejected as already registered; whatever its outcome,
\* an Add for such a chat leaves contents, order and length unchanged
C6_ReAddRejected ==
    [][\A t \in AddTasks :
          (/\ add[t].pc = "get_chat_member"
           /\ add[t].chat \in Ids(CHANNELS)
           /\ add'[t].pc = "reply")
             => /\ CHANNELS' = CHANNELS
                /\ add'[t].status \in AdminStatuses => add'[t].reply = "already"]_vars

\* an Add was rejected as already registered, with two channels registered
C6_Witness ==
    /\ Len(CHANNELS) = 2
    /\ \E t \in AddTasks : add[t].pc = "reply" /\ add[t].reply = "already"

\* C7: a broadcast started on an empty registry ends at once, with total 0
\* and without a send: it only replies its notice (or nothing) and returns
C7_EmptyNoSend ==
    [][\A b \in BcTasks :
          /\ (bc[b].pc = "queued" /\ bc'[b].pc # "queued" /\ CHANNELS = <<>>)
                => /\ bc'[b].pc \in {"reply", "ended"}
                   /\ bc'[b].pc = "reply" => bc'[b].reply = "no_channels"
                   /\ bc'[b].total = 0
                   /\ bc'[b].attempted = <<>>
          /\ (bc[b].pc = "ended" \/ (bc[b].pc = "reply" /\ bc[b].reply = "no_channels"))
                => bc'[b] = bc[b] \/ bc'[b] = IdleBc]_vars

\* a broadcast found the registry empty, and a channel was added before
\* its notice returned
C7_Witness ==
    /\ bc["b1"].pc = "reply" /\ bc["b1"].reply = "no_channels"
    /\ bc["b1"].total = 0 /\ bc["b1"].attempted = <<>>
    /\ CHANNELS # <<>>

RECURSIVE FailedTitles(_, _)
FailedTitles(ids, outs) ==
    IF ids = <<>> \/ outs = <<>> THEN <<>>
    ELSE (IF outs[1] = "ok" THEN <<>> ELSE <<Title(ids[1])>>)
            \o FailedTitles(Tail(ids), Tail(outs))

\* C9: the final report carries a failed list naming exactly the
\* destinations whose send failed, once each and in registry order, and
\* its success count is the number of the others
C9_FailedList ==
    \A b \in BcTasks :
        Reported(b) =>
            /\ bc[b].failed_channels = FailedTitles(bc[b].attempted, bc[b].outcomes)
            /\ bc[b].success = Len(bc[b].attempted) - Len(bc[b].failed_channels)

\* C10: removing with the token "@" + h, h the handle of a registered
\* destination, succeeds and removes a destination with that handle
C10_RemoveByAtHandle ==
    [][\A tok \in Tokens :
          (/\ RemoveCmd(tok)
           /\ StartsWith(tok, "@")
           /\ \E i \in 1..Len(CHANNELS) : CHANNELS[i].username = Tail(tok))
             => /\ ctl'.reply = "removed"
                /\ \E i \in 1..Len(CHANNELS) :
                      /\ CHANNELS[i].username = Tail(tok)
                      /\ CHANNELS' = RemoveAt(CHANNELS, i)]_vars

\* C11: a confirmed Clear on a registry of K entries reports K and leaves
\* the registry empty, and a List on the empty registry shows no destination
C11_ClearReportsCount ==
    [][/\ (ctl.pc = "idle" /\ ctl'.reply = "cleared")
             => /\ ctl'.count = Len(CHANNELS)
                /\ CHANNELS' = <<>>
       /\ (ctl.pc = "idle" /\ ctl'.reply \in {"list", "list_empty"}
                           /\ CHANNELS = <<>>)
             => /\ ctl'.reply = "list_empty"
                /\ ctl'.shown = <<>>]_vars

\* a Clear of two registered channels has been confirmed
C11_Witness ==
    /\ ctl.pc = "reply" /\ ctl.reply = "cleared"
    /\ ctl.count = 2
    /\ CHANNELS = <<>>

\* the token names the entry: it is a decimal numeral of its id, or its
\* handle, bare or behind "@"
Denotes(tok, channel) ==
    \/ PyIntOk(tok) /\ PyInt(tok) = channel.id
    \/ channel.username # None /\ LStrip(tok, "@") = channel.username

\* C12: a successful Remove deletes one entry, the one its argument names,
\* and leaves every other entry in place, in the same relative order
C12_RemoveKeepsOrder ==
    [][/\ (ctl.pc = "idle" /\ ctl'.reply = "removed")
             => \E i \in 1..Len(CHANNELS) :
                   /\ CHANNELS[i].id = ctl'.removed
                   /\ Len(CHANNELS') = Len(CHANNELS) - 1
                   /\ \A j \in 1..Len(CHANNELS') :
                         CHANNELS'[j] = CHANNELS[IF j < i THEN j ELSE j + 1]
       /\ \A tok \in Tokens :
             (RemoveCmd(tok) /\ ctl'.reply = "removed")
                => \E i \in 1..Len(CHANNELS) :
                      /\ CHANNELS[i].id = ctl'.removed
                      /\ Denotes(tok, CHANNELS[i])
       /\ \A id \in ChatIds :
             (RemoveButton(id) /\ ctl'.reply = "removed") => ctl'.removed = id]_vars

\* one of three registered channels has been removed, the other two remain
C12_Witness ==
    /\ ctl.pc = "reply" /\ ctl.reply = "removed"
    /\ Len(CHANNELS) = 2
    /\ \E a, b, c \in ChatIds :
          /\ a < b /\ b < c
          /\ ctl.removed = c
          /\ CHANNELS = <<Entry(a), Entry(b)>>

\* the replies that tell the operator no such channel is registered: the
\* not-found reply, and main.py's notice that there is no channel to remove
NotFoundReplies == {"not_found", "no_channels"}

\* C13: a Remove whose token or id names no registered destination, the
\* button of a destination removed meanwhile included, reports not-found
\* and leaves the registry unchanged
C13_RemoveNotFound ==
    [][/\ \A tok \in Tokens :
             (/\ RemoveCmd(tok)
              /\ \A i \in 1..Len(CHANNELS) : ~Denotes(tok, CHANNELS[i]))
                => /\ ctl'.reply \in NotFoundReplies
                   /\ CHANNELS' = CHANNELS
       /\ \A id \in ChatIds :
             (RemoveButton(id) /\ id \notin Ids(CHANNELS))
                => /\ ctl'.reply \in NotFoundReplies
                   /\ CHANNELS' = CHANNELS]_vars

\* the transport knows a chat by this argument: by its id, by the decimal
\* numeral of its id, or by "@" and its public alias
Resolvable(arg) ==
    \E c \in chats :
        IF arg.int THEN arg.n = c
        ELSE \/ arg.s = Str(c)
             \/ Username(c) # None /\ arg.s = <<"@">> \o Username(c)

\* C14: an Add whose identifier the transport cannot resolve, or whose
\* numeric identifier is malformed, replies with the error and leaves the
\* registry unchanged; the handler never ends by an exception
C14_UnresolvedReported ==
    [][\A t \in AddTasks :
          /\ (add[t].pc = "get_chat" /\ ~Resolvable(add[t].arg) /\ add'[t] # add[t])
                => /\ add'[t].pc = "reply" /\ add'[t].reply = "error"
                   /\ CHANNELS' = CHANNELS
          /\ (add[t].pc = "idle" /\ add'[t].pc \notin {"idle", "get_chat"}
                                 /\ add'[t].reply # "usage")
                => /\ add'[t].pc = "reply" /\ add'[t].reply = "error"
                   /\ CHANNELS' = CHANNELS
          /\ add'[t].pc # "crashed"]_vars

\* an Add has replied with the error for an identifier the transport does
\* not know, a channel being registered
C14_Witness ==
    /\ CHANNELS # <<>>
    /\ \E t \in AddTasks :
          /\ add[t].pc = "reply" /\ add[t].reply = "error"
          /\ add[t].arg # NoArg
          /\ ~Resolvable(add[t].arg)

\* C15: the registry is cleared only by the affirmative answer to a
\* confirmation prompt shown before; asking for the clear and answering the
\* prompt with cancel leave the registry unchanged
C15_ClearConfirmed ==
    [][/\ (ctl.pc = "idle" /\ ctl'.reply = "cleared") => prompt > 0
       /\ Len(CHANNELS') < Len(CHANNELS) - 1
             => /\ ctl.pc = "idle" /\ ctl'.reply = "cleared"
                /\ prompt > 0
       /\ (ctl.pc = "idle" /\ ctl'.reply \in {"confirm", "cancelled"})
             => CHANNELS' = CHANNELS]_vars

\* a prompt was answered with cancel, the channels are still registered
C15_Witness ==
    /\ ctl.pc = "reply" /\ ctl.reply = "cancelled"
    /\ ctl.count = 2 /\ Len(CHANNELS) = 2
    /\ prompt = 0

\* the entries of after are entries of before, in the order they have there
KeepsOrder(before, after) ==
    /\ \A i \in 1..Len(after) : \E k \in 1..Len(before) : before[k] = after[i]
    /\ \A i, j \in 1..Len(after) :
          i < j => \E k, l \in 1..Len(before) :
                      /\ k < l
                      /\ before[k] = after[i]
                      /\ before[l] = after[j]

\* C16: the registry is in the order of the successful Adds: a step only
\* puts a new entry behind all others, or takes entries away and keeps the
\* order of the rest; List shows the entries in the registry's order
C16_InsertionOrder ==
    [][/\ \/ CHANNELS' = CHANNELS
          \/ /\ Len(CHANNELS') = Len(CHANNELS) + 1
             /\ SubSeq(CHANNELS', 1, Len(CHANNELS)) = CHANNELS
             /\ \E t \in AddTasks :
                   /\ add'[t].reply = "added"
                   /\ CHANNELS'[Len(CHANNELS')] = Entry(add[t].chat)
          \/ /\ Len(CHANNELS') < Len(CHANNELS)
             /\ KeepsOrder(CHANNELS, CHANNELS')
       /\ (ctl.pc = "idle" /\ ctl'.reply = "list")
             => /\ Len(ctl'.shown) = Len(CHANNELS)
                /\ \A i \in 1..Len(CHANNELS) : ctl'.shown[i] = <<i, CHANNELS[i].id>>]_vars

\* a List has shown three channels, added in another order than that of
\* their ids
C16_Witness ==
    /\ ctl.pc = "reply" /\ ctl.reply = "list"
    /\ Len(ctl.shown) = 3
    /\ ctl.shown[1][2] < ctl.shown[2][2]
    /\ ctl.shown[3][2] < ctl.shown[2][2]

\* C17: a broadcast has at most one send in flight, and it starts a send
\* only when the one before has returned or failed, to the entry next in
\* the order of the list it iterates over
C17_OneSendAtATime ==
    [][\A b \in BcTasks :
          /\ Cardinality(bc'[b].sending) <= 1
          /\ Len(bc'[b].attempted) > Len(bc[b].attempted)
                => /\ bc[b].pc \in {"status", "send"}
                   /\ bc'[b].idx = bc[b].idx + 1
                   /\ bc'[b].idx <= Len(IterSource(bc[b]))
                   /\ bc'[b].attempted =
                         Append(bc[b].attempted, IterSource(bc[b])[bc'[b].idx].id)
                   /\ bc'[b].sending = {IterSource(bc[b])[bc'[b].idx].id}]_vars

\* the first send of a broadcast to two channels failed, the second is in
\* flight
C17_Witness ==
    /\ bc["b1"].pc = "send"
    /\ Len(bc["b1"].data) = 2
    /\ bc["b1"].outcomes = <<"telegram_error">>
    /\ Len(bc["b1"].attempted) = 2
    /\ Cardinality(bc["b1"].sending) = 1

\* the broadcast handler is between its status message and its final report
InLoop(b) == bc[b].pc \in {"status", "send"}

\* C18: as main() builds the application, while a send of one broadcast is
\* in flight no other broadcast is anywhere between its first and its last
\* send: the payload submitted meanwhile waits in the update queue
C18_NoInterleavedSends ==
    \A x \in BcTasks : \A y \in BcTasks \ {x} :
        bc[x].sending # {} => ~InLoop(y) /\ bc[y].sending = {}

\* a second payload was submitted while the first broadcast has a send in
\* flight to the second of two channels
C18_Witness ==
    /\ bc["b1"].pc = "send"
    /\ Len(bc["b1"].attempted) = 2
    /\ bc["b2"].pc = "queued"

\* C19: a broadcast that has begun its loop leaves it only by rendering its
\* final report, however its sends end and whatever is added meanwhile
C19_RunsToCompletion ==
    [][\A b \in BcTasks : InLoop(b) /\ ~InLoop(b)' => Reported(b)']_vars

\* the send method of the same kind as the payload
KindPrimitive ==
    [text |-> "send_message", photo |-> "send_photo", video |-> "send_video",
     document |-> "send_document", audio |-> "send_audio",
     voice |-> "send_voice", video_note |-> "send_video_note",
     sticker |-> "send_sticker", animation |-> "send_animation"]

\* C20: every send of the broadcast of a payload calls the send method of
\* the payload's kind, for each of the nine kinds
C20_SameKindPrimitive ==
    \A b \in BcTasks :
        (bc[b].pc = "send" /\ bc[b].kind \in PayloadKinds)
            => bc[b].primitive = KindPrimitive[bc[b].kind]

\* C21: a payload of a kind without a typed send method is broadcast like
\* any other, each send being a text message with the placeholder text
C21_PlaceholderRelay ==
    [][\A b \in BcTasks :
          bc[b].kind \in OtherKinds =>
             /\ (bc[b].pc = "queued" /\ bc'[b].pc # "queued" /\ CHANNELS # <<>>)
                   => bc'[b].pc = "status"
             /\ (bc'[b].pc = "send" /\ bc'[b].kind = bc[b].kind)
                   => /\ bc'[b].primitive = "send_message"
                      /\ bc'[b].call.body = Placeholder]_vars

\* C22: every send of a payload that has a text or a caption carries that
\* text or caption and the formatting spans of the same field
C22_BodyAndSpansCarried ==
    \A b \in BcTasks :
        bc[b].pc = "send" =>
            /\ bc[b].fields.text # ""
                  => /\ bc[b].call.body = bc[b].fields.text
                     /\ bc[b].call.spans = bc[b].fields.entities
            /\ bc[b].fields.caption # ""
                  => /\ bc[b].call.body = bc[b].fields.caption
                     /\ bc[b].call.spans = bc[b].fields.caption_entities

\* index of the first entry for which P holds (P holds for some entry)
FirstWith(chans, P(_)) ==
    CHOOSE i \in 1..Len(chans) : P(chans[i]) /\ \A j \in 1..(i - 1) : ~P(chans[j])

C24_EmptyNotice ==
    [][\A b \in BcTasks :
          (/\ bc[b].pc = "queued" /\ bc'[b].pc # "queued"
           /\ Handled(bc[b].msg)
           /\ CHANNELS = <<>>)
             => bc'[b].pc = "reply" /\ bc'[b].reply = "no_channels"]_vars

\* the shorter of two lengths
Min(a, b) == IF a < b THEN a ELSE b

\* C25: with F failed sends the report of bot.py shows the first
\* min(F, 5) of them in the order they failed, and the "more" suffix exactly
\* when F > 5, then with the number F - 5
C25_ReportCapped ==
    \A b \in BcTasks :
        (Reported(b) /\ variant = "bot") =>
            LET failures == FailedTitles(bc[b].attempted, bc[b].outcomes)
                F == Len(failures)
            IN  /\ F = bc[b].failed
                /\ Len(bc[b].report.lines) <= 5
                /\ bc[b].report.lines = SubSeq(failures, 1, Min(F, 5))
                /\ bc[b].report.suffix <=> F > 5
                /\ bc[b].report.suffix => bc[b].report.more = F - 5

\* a broadcast to seven channels has ended with six failed sends: the
\* report shows five of them and "1 more"
C25_Witness ==
    /\ Reported("b1")
    /\ bc["b1"].total = 7
    /\ bc["b1"].failed = 6
    /\ Len(bc["b1"].report.lines) = 5
    /\ bc["b1"].report.suffix /\ bc["b1"].report.more = 1

\* C26: an event of a user other than the owner, be it a command, a
\* payload or a pressed button, leaves the registry as it is and starts no
\* send
C26_OwnerOnly ==
    [][/\ (ctl.pc = "idle" /\ ctl'.pc # "idle" /\ ctl'.user # "owner")
             => CHANNELS' = CHANNELS
       /\ \A t \in AddTasks :
             (add[t].pc = "idle" /\ add'[t].reply = "unauthorized")
                => CHANNELS' = CHANNELS
       /\ \A b \in BcTasks :
             bc'[b].user # "owner"
                => /\ bc'[b].pc \in {"queued", "reply"}
                   /\ bc'[b].attempted = <<>>
                   /\ CHANNELS' = CHANNELS \/ bc'[b] = bc[b]]_vars

\* C27: a confirmed Clear removes as many channels as the prompt that was
\* answered stated, whatever was done between the prompt and the answer
C27_ClearsWhatWasShown ==
    [][(ctl.pc = "idle" /\ ctl'.reply = "cleared")
          => /\ Len(CHANNELS) - Len(CHANNELS') = prompt
             /\ ctl'.count = prompt]_vars

\* the replies of the handlers that only show something
ViewReplies == {"list", "list_empty", "stats", "confirm"}

\* C28: no step of a broadcast, whatever its sends return, and no List,
\* statistics view or confirmation prompt changes the registry
C28_ViewsKeepRegistry ==
    [][/\ bc' # bc => CHANNELS' = CHANNELS
       /\ (ctl.pc = "idle" /\ ctl'.reply \in ViewReplies) => CHANNELS' = CHANNELS]_vars

\* a broadcast to three channels has reported two failed sends and the
\* registry is as it was when the broadcast began
C28_Witness ==
    /\ Reported("b1")
    /\ bc["b1"].total = 3 /\ bc["b1"].failed = 2
    /\ CHANNELS = bc["b1"].data

C30_StatsConsistent ==
    http.pc = "sent" => http.channels_count = Len(http.channels)

=============================================================================
